---- MODULE Spec2Model ----
(***************************************************************************)
(* The view layer of the blogging application (posts/views.py) as a state  *)
(* machine over the persisted store (Post, Comment and Follow rows), the   *)
(* page cache of the index view and the wall clock.  A handler is one      *)
(* action per round trip to the store or to the cache: a handler that      *)
(* issues several queries, or reads a row and writes it back later, is     *)
(* several actions, and between them the request waits in inflight with    *)
(* the values it has read, so that concurrent requests interleave between  *)
(* its queries.  The last response sent is kept in resp.                   *)
(***************************************************************************)
EXTENDS Integers, Sequences, FiniteSets, Bags, TLC

\* ------------------------------------------------------------------ bounds
MaxPosts == 2
MaxComments == 1
MaxInflight == 2
MaxTime == 30

\* ------------------------------------------------------- program constants
PageSize == 10
CacheTimeout == 20

\* ------------------------------------------------------------ input values
None == "none"
Anonymous == "anon"
Users == {"u1", "u2"}
Usernames == Users \cup {"ghost"}
Groups == {"g1"}
Slugs == Groups \cup {"nogroup"}
ImageFile == "gif"
TextFile == "txt"
Files == {None, ImageFile, TextFile}

VARIABLES posts, comments, follows, cache, now, inflight, resp

vars == <<posts, comments, follows, cache, now, inflight, resp>>

\* ------------------------------------------------------------ value shapes
NoPost == [id |-> 0, text |-> "", group |-> None, image |-> None, author |-> None]

NoPage == [given |-> FALSE, n |-> 0]

PageNo(n) == [given |-> TRUE, n |-> n]

\* The index URLs requested: without a page parameter, and with ?page=2.
PageParams == {NoPage, PageNo(2)}

NoData == [text |-> "", group |-> None, author |-> None, bound |-> FALSE, post |-> 0]

FormData(text, group, author, post) ==
    [text |-> text, group |-> group, author |-> author, bound |-> TRUE, post |-> post]

Url(name, username, post_id) == [name |-> name, username |-> username, post_id |-> post_id]

NoUrl == Url("", "", 0)

Request(handler, user, username, post_id, slug, page, data, file) ==
    [username |-> username, post_id |-> post_id, handler |-> handler, user |-> user,
     slug |-> slug, page |-> page, data |-> data, file |-> file]

EmptyBody ==
    [comments |-> <<>>, post |-> NoPost, page |-> <<>>, template |-> "", number |-> 0,
     num_pages |-> 0, paginator_count |-> 0, count |-> 0, following |-> FALSE]

\* A response: the request it answers, its status, the redirect target (with
\* the login redirect's next parameter), the view-model handed to the
\* template, and whether the handler body ran against the data model.  seq is
\* the parity of the number of responses sent so far.
Response(req, status, target, next, body, db) ==
    [req |-> req, status |-> status, target |-> target, next |-> next, body |-> body,
     db |-> db, seq |-> 1 - resp.seq]

Render(req, status, body) == Response(req, status, NoUrl, NoUrl, body, TRUE)

Redirect(req, target) == Response(req, 302, target, NoUrl, EmptyBody, TRUE)

NotFound(req) ==
    Response(req, 404, NoUrl, NoUrl, [EmptyBody EXCEPT !.template = "misc/404.html"], TRUE)

RequestPath(req) ==
    Url(req.handler, req.username, req.post_id)

\* ------------------------------------------------------- framework helpers
\* Mutant: every client passes for authenticated.
IsAuthenticatedAlways(user) == TRUE

\* login_required: request.user.is_authenticated.
IsAuthenticated(user) == user # Anonymous

RedirectToLogin(req) ==
    Response(req, 302, Url("login", "", 0), RequestPath(req), EmptyBody, FALSE)

UserExists(username) == username \in Users

PostExists(post_id, username) ==
    /\ post_id \in DOMAIN posts
    /\ posts[post_id].author = username

Min(a, b) == IF a < b THEN a ELSE b

NumPages(count) ==
    IF count = 0 THEN 1 ELSE (count + PageSize - 1) \div PageSize

GetPageNumber(page_number, count) ==
    IF ~page_number.given THEN 1
    ELSE IF page_number.n < 1 \/ page_number.n > NumPages(count)
         THEN NumPages(count)
         ELSE page_number.n

\* Paginator.page: the slice [bottom:top] of the object list, its bounds
\* computed from the count the paginator has queried before; the slice is
\* a query of its own, evaluated when the template iterates the page.
PageRows(object_list, page_number, count) ==
    LET n == GetPageNumber(page_number, count)
        bottom == (n - 1) * PageSize
        top == Min(n * PageSize, count)
    IN SubSeq(object_list, bottom + 1, Min(top, Len(object_list)))

\* The context of a paginated template: the page's rows, its number, and the
\* paginator's num_pages and count.
ListingBody(template, rows, page_number, count) ==
    [EmptyBody EXCEPT !.template = template, !.page = rows,
                      !.number = GetPageNumber(page_number, count),
                      !.num_pages = NumPages(count), !.paginator_count = count]

\* ------------------------------------------------------------- data model
RECURSIVE Reverse(_)
Reverse(s) == IF s = <<>> THEN <<>> ELSE Append(Reverse(Tail(s)), Head(s))

\* Post's default ordering: newest first.
PostOrdering(rows) == Reverse(rows)

PostsAll == PostOrdering(posts)

AuthorPosts(username) ==
    PostOrdering(SelectSeq(posts, LAMBDA p: p.author = username))

GroupPosts(slug) ==
    PostOrdering(SelectSeq(posts, LAMBDA p: p.group = slug))

PostComments(post_id) ==
    SelectSeq(comments, LAMBDA c: c.post = post_id)

FollowRow(user, author) == [author |-> author, user |-> user]

FollowExists(user, author) == BagIn(FollowRow(user, author), follows)

\* Mutant: the store accepts a second row for the same pair.
FollowUniqueOff(rows, row) == TRUE

\* The (user, author) pair of a Follow row is unique in the data store.
FollowUnique(rows, row) == ~BagIn(row, rows)

FollowCreate(rows, row) == rows (+) SetToBag({row})

FollowDelete(rows, user, author) ==
    [r \in DOMAIN rows \ {FollowRow(user, author)} |-> rows[r]]

\* ------------------------------------------------------------------ forms
PostFormIsValid(data, file) ==
    /\ data.bound
    /\ data.text # ""
    /\ data.group \in Groups \cup {None}
    /\ file \in {None, ImageFile}

PostFormSave(data, file, instance) ==
    [instance EXCEPT !.text = data.text,
                     !.group = data.group,
                     !.image = IF file # None THEN file ELSE instance.image]

CommentFormIsValid(data) ==
    /\ data.bound
    /\ data.text # ""

CommentFormSave(data) == [text |-> data.text, author |-> None, post |-> 0]

\* --------------------------------------------------- requests in progress
\* A request between two of its round trips: the request, the statement it
\* has reached, and the values it has read so far (the follow existence
\* flag, count_posts, the paginator's count, the loaded Post, the page rows).
Proc(req, pc) ==
    [post |-> NoPost, page |-> <<>>, paginator_count |-> 0, count |-> 0, req |-> req,
     pc |-> pc, follow |-> FALSE]

At(r, handler, pc) ==
    /\ BagIn(r, inflight)
    /\ r.req.handler = handler
    /\ r.pc = pc

Spawn(r) ==
    /\ BagCardinality(inflight) < MaxInflight
    /\ inflight' = inflight (+) SetToBag({r})

Advance(r, r2) == inflight' = (inflight (-) SetToBag({r})) (+) SetToBag({r2})

Finish(r) == inflight' = inflight (-) SetToBag({r})

\* ------------------------------------------------------------------- init
Init ==
    /\ posts = <<>>
    /\ comments = <<>>
    /\ follows = EmptyBag
    /\ cache = [p \in PageParams |-> [body |-> EmptyBody, stored |-> FALSE, expires |-> 0]]
    /\ now = 0
    /\ inflight = EmptyBag
    /\ resp = [req |-> Request("", Anonymous, "", 0, "", NoPage, NoData, None),
               status |-> 0, target |-> NoUrl, next |-> NoUrl, body |-> EmptyBody,
               db |-> FALSE, seq |-> 0]

\* --------------------------------------------------------------- handlers
\* Mutant: the new post is saved without the requesting user as its author.
NewPostRowNoAuthor(user, data, id) ==
    [PostFormSave(data, None, NoPost) EXCEPT !.id = id]

\* form.save(commit=False); post.author = request.user; post.save()
\* (views.py 59-61).  The form was built without request.FILES.
NewPostRow(user, data, id) ==
    [PostFormSave(data, None, NoPost) EXCEPT !.author = user, !.id = id]

\* new_post writes the store once, with one INSERT.
new_post(user, data, file) ==
    LET req == Request("new_post", user, "", 0, "", NoPage, data, file)
    IN IF ~IsAuthenticated(user)
       THEN /\ resp' = RedirectToLogin(req)
            /\ UNCHANGED <<posts, comments, follows, cache, now, inflight>>
       ELSE IF ~PostFormIsValid(data, None)
       THEN /\ resp' = Render(req, 200, [EmptyBody EXCEPT !.template = "posts/new_post.html"])
            /\ UNCHANGED <<posts, comments, follows, cache, now, inflight>>
       ELSE /\ Len(posts) < MaxPosts
            /\ posts' = Append(posts, NewPostRow(user, data, Len(posts) + 1))
            /\ resp' = Redirect(req, Url("index", "", 0))
            /\ UNCHANGED <<comments, follows, cache, now, inflight>>

\* Mutant: the ownership test never denies.
NotAuthorNever(user, post) == FALSE

\* request.user != post.author (views.py 127).
NotAuthor(user, post) == user # post.author

\* post_edit from the login check to the validation of the form bound to the
\* Post instance it has loaded (views.py 117-135).
post_edit_load(user, username, post_id, data, file) ==
    LET req == Request("post_edit", user, username, post_id, "", NoPage, data, file)
    IN IF ~IsAuthenticated(user)
       THEN /\ resp' = RedirectToLogin(req)
            /\ UNCHANGED <<posts, comments, follows, cache, now, inflight>>
       ELSE IF ~PostExists(post_id, username)
       THEN /\ resp' = NotFound(req)
            /\ UNCHANGED <<posts, comments, follows, cache, now, inflight>>
       ELSE IF NotAuthor(user, posts[post_id])
       THEN /\ resp' = Redirect(req, Url("post_view", username, post_id))
            /\ UNCHANGED <<posts, comments, follows, cache, now, inflight>>
       ELSE IF ~PostFormIsValid(data, file)
       THEN /\ resp' = Render(req, 200, [EmptyBody EXCEPT !.template = "posts/new_post.html",
                                                          !.post = posts[post_id]])
            /\ UNCHANGED <<posts, comments, follows, cache, now, inflight>>
       ELSE /\ Spawn([Proc(req, "valid") EXCEPT !.post = posts[post_id]])
            /\ UNCHANGED <<posts, comments, follows, cache, now, resp>>

\* form.save() and the redirect (views.py 136-137): the instance as it was
\* loaded, with the form's fields applied, is written over the stored row.
post_edit_save(r) ==
    /\ At(r, "post_edit", "valid")
    /\ posts' = [posts EXCEPT ![r.req.post_id] = PostFormSave(r.req.data, r.req.file, r.post)]
    /\ resp' = Redirect(r.req, Url("post_view", r.req.username, r.req.post_id))
    /\ Finish(r)
    /\ UNCHANGED <<comments, follows, cache, now>>

\* Mutant: author and post are taken from the submitted fields when present.
NewCommentFromData(user, post_id, data) ==
    [CommentFormSave(data) EXCEPT
        !.author = IF data.author # None THEN data.author ELSE user,
        !.post = IF data.post # 0 THEN data.post ELSE post_id]

\* comment = form.save(commit=False); comment.author = request.user;
\* comment.post = post (views.py 154-156).
NewComment(user, post_id, data) ==
    [CommentFormSave(data) EXCEPT !.author = user, !.post = post_id]

\* add_comment up to the validation of the form: the Post is looked up
\* (views.py 140-153).
add_comment_load(user, username, post_id, data) ==
    LET req == Request("add_comment", user, username, post_id, "", NoPage, data, None)
    IN IF ~IsAuthenticated(user)
       THEN /\ resp' = RedirectToLogin(req)
            /\ UNCHANGED <<posts, comments, follows, cache, now, inflight>>
       ELSE IF ~PostExists(post_id, username)
       THEN /\ resp' = NotFound(req)
            /\ UNCHANGED <<posts, comments, follows, cache, now, inflight>>
       ELSE IF ~CommentFormIsValid(data)
       THEN /\ resp' = Render(req, 200, [EmptyBody EXCEPT !.template = "includes/comments.html",
                                                          !.post = posts[post_id]])
            /\ UNCHANGED <<posts, comments, follows, cache, now, inflight>>
       ELSE /\ Len(comments) < MaxComments
            /\ Spawn([Proc(req, "valid") EXCEPT !.post = posts[post_id]])
            /\ UNCHANGED <<posts, comments, follows, cache, now, resp>>

\* add_comment from form.save(commit=False) to its redirect: the Comment is
\* inserted for the Post as it was looked up (views.py 154-158).
add_comment_save(r) ==
    /\ At(r, "add_comment", "valid")
    /\ Len(comments) < MaxComments
    /\ comments' = Append(comments, NewComment(r.req.user, r.post.id, r.req.data))
    /\ resp' = Redirect(r.req, Url("post_view", r.req.username, r.req.post_id))
    /\ Finish(r)
    /\ UNCHANGED <<posts, follows, cache, now>>

\* Mutant: an entry is still served at the instant it expires.
CacheFreshAtExpiry(entry, t) == entry.stored /\ t <= entry.expires

\* cache_page(20, key_prefix="index_page"): an entry is served until it expires.
CacheFresh(entry, t) == entry.stored /\ t < entry.expires

CacheEntry(body, t) == [body |-> body, stored |-> TRUE, expires |-> t + CacheTimeout]

\* The cache lookup that cache_page makes before the view: a stored response
\* that has not expired is returned and the view does not run.
index_lookup(user, page_number) ==
    LET req == Request("index", user, "", 0, "", page_number, NoData, None)
    IN IF CacheFresh(cache[page_number], now)
       THEN /\ resp' = Response(req, 200, NoUrl, NoUrl, cache[page_number].body, FALSE)
            /\ UNCHANGED <<posts, comments, follows, cache, now, inflight>>
       ELSE /\ Spawn(Proc(req, "view"))
            /\ UNCHANGED <<posts, comments, follows, cache, now, resp>>

\* The view's paginator counts the posts (views.py 17-20).
index_count(r) ==
    /\ At(r, "index", "view")
    /\ Advance(r, [r EXCEPT !.pc = "counted", !.paginator_count = Len(PostsAll)])
    /\ UNCHANGED <<posts, comments, follows, cache, now, resp>>

\* The template iterates the page (views.py 21-22).
index_rows(r) ==
    /\ At(r, "index", "counted")
    /\ Advance(r, [r EXCEPT !.pc = "rendered",
                            !.page = PageRows(PostsAll, r.req.page, r.paginator_count)])
    /\ UNCHANGED <<posts, comments, follows, cache, now, resp>>

\* cache_page stores the rendered response for CacheTimeout seconds from now
\* and returns it.
index_store(r) ==
    LET body == ListingBody("index.html", r.page, r.req.page, r.paginator_count)
    IN /\ At(r, "index", "rendered")
       /\ cache' = [cache EXCEPT ![r.req.page] = CacheEntry(body, now)]
       /\ resp' = Render(r.req, 200, body)
       /\ Finish(r)
       /\ UNCHANGED <<posts, comments, follows, now>>

\* group_posts up to the paginator's count (views.py 25-38).
group_posts_count(user, slug, page_number) ==
    LET req == Request("group_posts", user, "", 0, slug, page_number, NoData, None)
    IN IF slug \notin Groups
       THEN /\ resp' = NotFound(req)
            /\ UNCHANGED <<posts, comments, follows, cache, now, inflight>>
       ELSE /\ Spawn([Proc(req, "counted") EXCEPT !.paginator_count = Len(GroupPosts(slug))])
            /\ UNCHANGED <<posts, comments, follows, cache, now, resp>>

\* The template iterates the page (views.py 40-44).
group_posts_rows(r) ==
    /\ At(r, "group_posts", "counted")
    /\ resp' = Render(r.req, 200,
                      ListingBody("group.html",
                                  PageRows(GroupPosts(r.req.slug), r.req.page, r.paginator_count),
                                  r.req.page, r.paginator_count))
    /\ Finish(r)
    /\ UNCHANGED <<posts, comments, follows, cache, now>>

\* profile up to the query whether the viewer follows the author
\* (views.py 65-76); an unauthenticated viewer follows nobody.
profile_following(user, username, page_number) ==
    LET req == Request("profile", user, username, 0, "", page_number, NoData, None)
    IN IF ~UserExists(username)
       THEN /\ resp' = NotFound(req)
            /\ UNCHANGED <<posts, comments, follows, cache, now, inflight>>
       ELSE /\ Spawn([Proc(req, "following")
                        EXCEPT !.follow = IsAuthenticated(user) /\ FollowExists(user, username)])
            /\ UNCHANGED <<posts, comments, follows, cache, now, resp>>

\* count_posts = posts.count() (views.py 78-79).
profile_count(r) ==
    /\ At(r, "profile", "following")
    /\ Advance(r, [r EXCEPT !.pc = "counted", !.count = Len(AuthorPosts(r.req.username))])
    /\ UNCHANGED <<posts, comments, follows, cache, now, resp>>

\* The paginator counts the posts again (views.py 80-82).
profile_paginate(r) ==
    /\ At(r, "profile", "counted")
    /\ Advance(r, [r EXCEPT !.pc = "paginated",
                            !.paginator_count = Len(AuthorPosts(r.req.username))])
    /\ UNCHANGED <<posts, comments, follows, cache, now, resp>>

\* The template iterates the page (views.py 84-90).
profile_rows(r) ==
    /\ At(r, "profile", "paginated")
    /\ resp' = Render(r.req, 200,
                      [ListingBody("profile.html",
                                   PageRows(AuthorPosts(r.req.username), r.req.page,
                                            r.paginator_count),
                                   r.req.page, r.paginator_count)
                         EXCEPT !.count = r.count, !.following = r.follow])
    /\ Finish(r)
    /\ UNCHANGED <<posts, comments, follows, cache, now>>

\* post_view up to the Post it loads (views.py 93-102).
post_view_load(user, username, post_id) ==
    LET req == Request("post_view", user, username, post_id, "", NoPage, NoData, None)
    IN IF ~UserExists(username) \/ ~PostExists(post_id, username)
       THEN /\ resp' = NotFound(req)
            /\ UNCHANGED <<posts, comments, follows, cache, now, inflight>>
       ELSE /\ Spawn([Proc(req, "loaded") EXCEPT !.post = posts[post_id]])
            /\ UNCHANGED <<posts, comments, follows, cache, now, resp>>

\* count_posts = user.author_posts.count() (views.py 103).
post_view_count(r) ==
    /\ At(r, "post_view", "loaded")
    /\ Advance(r, [r EXCEPT !.pc = "counted", !.count = Len(AuthorPosts(r.req.username))])
    /\ UNCHANGED <<posts, comments, follows, cache, now, resp>>

\* The template iterates post.comments.all() (views.py 105-114).
post_view_comments(r) ==
    /\ At(r, "post_view", "counted")
    /\ resp' = Render(r.req, 200,
                      [EmptyBody EXCEPT !.template = "post_view.html",
                                        !.post = r.post,
                                        !.count = r.count,
                                        !.comments = PostComments(r.req.post_id)])
    /\ Finish(r)
    /\ UNCHANGED <<posts, comments, follows, cache, now>>

\* Post.objects.filter(author__following__user=user): Post joined with the
\* Follow rows whose author is the post's author and whose user is the viewer,
\* one result row per matching Follow row.
RECURSIVE Copies(_, _)
Copies(x, n) == IF n = 0 THEN <<>> ELSE <<x>> \o Copies(x, n - 1)

\* Mutant: the lookup without its __user condition, one result row per
\* follower of the post's author.
RECURSIVE JoinFollowingAnyUser(_, _)
JoinFollowingAnyUser(rows, user) ==
    IF rows = <<>> THEN <<>>
    ELSE Copies(Head(rows),
                BagCardinality([r \in {x \in DOMAIN follows : x.author = Head(rows).author}
                                  |-> follows[r]]))
         \o JoinFollowingAnyUser(Tail(rows), user)

\* Mutant: the lookup through the wrong relation, the posts of the viewer's
\* followers.
RECURSIVE JoinFollower(_, _)
JoinFollower(rows, user) ==
    IF rows = <<>> THEN <<>>
    ELSE Copies(Head(rows), CopiesIn(FollowRow(Head(rows).author, user), follows))
         \o JoinFollower(Tail(rows), user)

RECURSIVE JoinFollowing(_, _)
JoinFollowing(rows, user) ==
    IF rows = <<>> THEN <<>>
    ELSE Copies(Head(rows), CopiesIn(FollowRow(user, Head(rows).author), follows))
         \o JoinFollowing(Tail(rows), user)

FollowIndexPostList(user) == JoinFollowing(PostsAll, user)

\* follow_index up to count_posts = post_list.count() (views.py 161-170).
follow_index_count(user, page_number) ==
    LET req == Request("follow_index", user, "", 0, "", page_number, NoData, None)
    IN IF ~IsAuthenticated(user)
       THEN /\ resp' = RedirectToLogin(req)
            /\ UNCHANGED <<posts, comments, follows, cache, now, inflight>>
       ELSE /\ Spawn([Proc(req, "counted") EXCEPT !.count = Len(FollowIndexPostList(user))])
            /\ UNCHANGED <<posts, comments, follows, cache, now, resp>>

\* The paginator counts the list again (views.py 171-173).
follow_index_paginate(r) ==
    /\ At(r, "follow_index", "counted")
    /\ Advance(r, [r EXCEPT !.pc = "paginated",
                            !.paginator_count = Len(FollowIndexPostList(r.req.user))])
    /\ UNCHANGED <<posts, comments, follows, cache, now, resp>>

\* The template iterates the page (views.py 175-180).
follow_index_rows(r) ==
    /\ At(r, "follow_index", "paginated")
    /\ resp' = Render(r.req, 200,
                      [ListingBody("follow.html",
                                   PageRows(FollowIndexPostList(r.req.user), r.req.page,
                                            r.paginator_count),
                                   r.req.page, r.paginator_count)
                         EXCEPT !.count = r.count])
    /\ Finish(r)
    /\ UNCHANGED <<posts, comments, follows, cache, now>>

\* profile_follow up to and including the existence query (views.py 183-189).
profile_follow_query(user, username) ==
    LET req == Request("profile_follow", user, username, 0, "", NoPage, NoData, None)
    IN IF ~IsAuthenticated(user)
       THEN /\ resp' = RedirectToLogin(req)
            /\ UNCHANGED <<posts, comments, follows, cache, now, inflight>>
       ELSE IF ~UserExists(username)
       THEN /\ resp' = NotFound(req)
            /\ UNCHANGED <<posts, comments, follows, cache, now, inflight>>
       ELSE /\ Spawn([Proc(req, "queried") EXCEPT !.follow = FollowExists(user, username)])
            /\ UNCHANGED <<posts, comments, follows, cache, now, resp>>

\* Mutant: the condition without its self-follow test.
ShouldCreateFollowAnyAuthor(user, author, follow) == follow = FALSE

\* The condition of views.py line 190.
ShouldCreateFollow(user, author, follow) == ~(user = author) /\ follow = FALSE

\* profile_follow from its condition to its redirect (views.py 190-192).
profile_follow_create(r) ==
    LET row == FollowRow(r.req.user, r.req.username)
    IN /\ At(r, "profile_follow", "queried")
       /\ Finish(r)
       /\ IF ~ShouldCreateFollow(r.req.user, r.req.username, r.follow)
          THEN /\ resp' = Redirect(r.req, Url("profile", r.req.username, 0))
               /\ UNCHANGED follows
          ELSE IF FollowUnique(follows, row)
          THEN /\ follows' = FollowCreate(follows, row)
               /\ resp' = Redirect(r.req, Url("profile", r.req.username, 0))
          ELSE /\ resp' = Response(r.req, 500, NoUrl, NoUrl,
                                   [EmptyBody EXCEPT !.template = "misc/500.html"], TRUE)
               /\ UNCHANGED follows
       /\ UNCHANGED <<posts, comments, cache, now>>

\* profile_unfollow writes the store once, with one DELETE.
profile_unfollow(user, username) ==
    LET req == Request("profile_unfollow", user, username, 0, "", NoPage, NoData, None)
    IN IF ~IsAuthenticated(user)
       THEN /\ resp' = RedirectToLogin(req)
            /\ UNCHANGED <<posts, comments, follows, cache, now, inflight>>
       ELSE IF ~UserExists(username)
       THEN /\ resp' = NotFound(req)
            /\ UNCHANGED <<posts, comments, follows, cache, now, inflight>>
       ELSE /\ follows' = FollowDelete(follows, user, username)
            /\ resp' = Redirect(req, Url("profile", username, 0))
            /\ UNCHANGED <<posts, comments, cache, now, inflight>>

\* The wall clock advances, in seconds; the steps reach 19 and 20 seconds
\* after a response was stored.
TickSteps == {10, 19}

Tick(d) ==
    /\ now + d <= MaxTime
    /\ now' = now + d
    /\ UNCHANGED <<posts, comments, follows, cache, inflight, resp>>

\* ------------------------------------------------------------- requests
AnyUser == Users \cup {Anonymous}

PostIds == 1..MaxPosts

OneOrAnon == {"u1", Anonymous}

ValidPost == FormData("a", None, None, 0)

AltPost == FormData("b", "g1", None, 0)

PostData ==
    {NoData, ValidPost, AltPost, FormData("", None, None, 0), FormData("a", "gX", None, 0)}

CommentData ==
    {NoData, FormData("", None, None, 0)}
    \cup {FormData("c", None, a, p) : a \in Users \cup {None}, p \in {0, 1}}

\* Every handler, every client.
Next ==
    \/ \E u \in AnyUser, p \in PageParams : index_lookup(u, p)
    \/ \E r \in BagToSet(inflight) : index_count(r)
    \/ \E r \in BagToSet(inflight) : index_rows(r)
    \/ \E r \in BagToSet(inflight) : index_store(r)
    \/ \E u \in AnyUser, s \in Slugs, p \in PageParams : group_posts_count(u, s, p)
    \/ \E r \in BagToSet(inflight) : group_posts_rows(r)
    \/ \E u \in AnyUser, d \in PostData, f \in Files : new_post(u, d, f)
    \/ \E u \in AnyUser, un \in Usernames, p \in PageParams : profile_following(u, un, p)
    \/ \E r \in BagToSet(inflight) : profile_count(r)
    \/ \E r \in BagToSet(inflight) : profile_paginate(r)
    \/ \E r \in BagToSet(inflight) : profile_rows(r)
    \/ \E u \in AnyUser, un \in Usernames, i \in PostIds : post_view_load(u, un, i)
    \/ \E r \in BagToSet(inflight) : post_view_count(r)
    \/ \E r \in BagToSet(inflight) : post_view_comments(r)
    \/ \E u \in AnyUser, un \in Usernames, i \in PostIds, d \in PostData, f \in Files :
          post_edit_load(u, un, i, d, f)
    \/ \E r \in BagToSet(inflight) : post_edit_save(r)
    \/ \E u \in AnyUser, un \in Usernames, i \in PostIds, d \in CommentData :
          add_comment_load(u, un, i, d)
    \/ \E r \in BagToSet(inflight) : add_comment_save(r)
    \/ \E u \in AnyUser, p \in PageParams : follow_index_count(u, p)
    \/ \E r \in BagToSet(inflight) : follow_index_paginate(r)
    \/ \E r \in BagToSet(inflight) : follow_index_rows(r)
    \/ \E u \in AnyUser, un \in Usernames : profile_follow_query(u, un)
    \/ \E r \in BagToSet(inflight) : profile_follow_create(r)
    \/ \E u \in AnyUser, un \in Usernames : profile_unfollow(u, un)
    \/ \E d \in TickSteps : Tick(d)

Spec == Init /\ [][Next]_vars

\* Following: concurrent follow requests and unfollow requests.
NextFollow ==
    \/ \E u \in Users, un \in Users : profile_follow_query(u, un)
    \/ \E r \in BagToSet(inflight) : profile_follow_create(r)
    \/ \E u \in Users, un \in Users : profile_unfollow(u, un)

SpecFollow == Init /\ [][NextFollow]_vars

\* The feed of u1 under concurrent follow requests, unfollow requests and new
\* posts of both users.
NextFeed ==
    \/ \E un \in Users : profile_follow_query("u1", un)
    \/ \E r \in BagToSet(inflight) : profile_follow_create(r)
    \/ profile_unfollow("u1", "u2")
    \/ \E u \in Users : new_post(u, ValidPost, None)
    \/ follow_index_count("u1", NoPage)
    \/ \E r \in BagToSet(inflight) : follow_index_paginate(r)
    \/ \E r \in BagToSet(inflight) : follow_index_rows(r)

SpecFeed == Init /\ [][NextFeed]_vars

\* The posts that the authoring requests address.
EditedIds == {1, 2}

\* Authoring: new posts, overlapping edits of the posts of u1 by u1 and by
\* u2, non-image uploads.
NextEdit ==
    \/ \E u \in Users, f \in {None, TextFile} : new_post(u, ValidPost, f)
    \/ \E u \in Users, i \in EditedIds, f \in Files : post_edit_load(u, "u1", i, AltPost, f)
    \/ \E r \in BagToSet(inflight) : post_edit_save(r)

SpecEdit == Init /\ [][NextEdit]_vars

\* The comments submitted: without text, and with the author and post fields
\* of a user's comment on the first post.
ForgedComments ==
    {FormData("", None, None, 0)} \cup {FormData("c", None, a, 1) : a \in Users}

\* Commenting on the posts of u1, with author and post fields forged in the
\* submitted data and once under the wrong username, while u1 edits the
\* first post.
NextComment ==
    \/ new_post("u1", ValidPost, None)
    \/ \E u \in Users, i \in EditedIds, d \in ForgedComments :
          add_comment_load(u, "u1", i, d)
    \/ add_comment_load("u1", "u2", 1, FormData("c", None, "u1", 1))
    \/ \E r \in BagToSet(inflight) : add_comment_save(r)
    \/ post_edit_load("u1", "u1", 1, AltPost, None)
    \/ \E r \in BagToSet(inflight) : post_edit_save(r)

SpecComment == Init /\ [][NextComment]_vars

\* The index page cache, shared by the clients, against the clock and new
\* posts.
NextCache ==
    \/ \E u \in OneOrAnon : index_lookup(u, NoPage)
    \/ \E r \in BagToSet(inflight) : index_count(r)
    \/ \E r \in BagToSet(inflight) : index_rows(r)
    \/ \E r \in BagToSet(inflight) : index_store(r)
    \/ new_post("u1", ValidPost, None)
    \/ \E d \in TickSteps : Tick(d)

SpecCache == Init /\ [][NextCache]_vars

\* The pages that show a post: index, the author's profile and the detail
\* page of the first post, against new posts.
NextPages ==
    \/ index_lookup("u1", NoPage)
    \/ \E r \in BagToSet(inflight) : index_count(r)
    \/ \E r \in BagToSet(inflight) : index_rows(r)
    \/ \E r \in BagToSet(inflight) : index_store(r)
    \/ new_post("u1", ValidPost, None)
    \/ profile_following("u1", "u1", NoPage)
    \/ \E r \in BagToSet(inflight) : profile_count(r)
    \/ \E r \in BagToSet(inflight) : profile_paginate(r)
    \/ \E r \in BagToSet(inflight) : profile_rows(r)
    \/ post_view_load("u1", "u1", 1)
    \/ \E r \in BagToSet(inflight) : post_view_count(r)
    \/ \E r \in BagToSet(inflight) : post_view_comments(r)

SpecPages == Init /\ [][NextPages]_vars

\* Unauthenticated clients against a store that user u1 has filled.
NextAuth ==
    \/ \E u \in OneOrAnon, f \in {None, ImageFile} : new_post(u, ValidPost, f)
    \/ \E i \in PostIds : post_edit_load(Anonymous, "u1", i, AltPost, None)
    \/ \E u \in OneOrAnon, i \in PostIds :
          add_comment_load(u, "u1", i, FormData("c", None, "u1", i))
    \/ \E r \in BagToSet(inflight) : add_comment_save(r)
    \/ follow_index_count(Anonymous, NoPage)
    \/ \E u \in OneOrAnon : profile_follow_query(u, "u2")
    \/ \E r \in BagToSet(inflight) : profile_follow_create(r)
    \/ \E u \in OneOrAnon : profile_unfollow(u, "u2")
    \/ post_view_load(Anonymous, "u1", 1)
    \/ \E r \in BagToSet(inflight) : post_view_count(r)
    \/ \E r \in BagToSet(inflight) : post_view_comments(r)

SpecAuth == Init /\ [][NextAuth]_vars

\* ------------------------------------------------------ following and feed
Answered == resp'.seq # resp.seq

\* The request in progress r sends its response in this step.
Completes(r) ==
    /\ Answered
    /\ resp'.req = r.req
    /\ Finish(r)

FeedIds(user) ==
    {FollowIndexPostList(user)[k].id : k \in DOMAIN FollowIndexPostList(user)}

FollowedPostIds(user) ==
    {i \in DOMAIN posts : FollowExists(user, posts[i].author)}

AuthorPostIds(username) ==
    {i \in DOMAIN posts : posts[i].author = username}

PageIds(body) == {body.page[k].id : k \in DOMAIN body.page}

StaleFollowPending(user) ==
    \E r \in BagToSet(inflight) :
        /\ r.req.handler = "profile_follow"
        /\ r.req.user = user
        /\ r.follow = FALSE
        /\ FollowExists(r.req.user, r.req.username)

\* C1: in every reachable state, whatever the interleaving of the existence
\* checks and row creations of profile_follow requests with each other and with
\* profile_unfollow, the store holds at most one Follow row per (user, author).
C1_AtMostOneFollowRow ==
    \A u \in Users, a \in Users : CopiesIn(FollowRow(u, a), follows) <= 1

\* Two requests of one user for one author both passed the existence check
\* before either created the row; the second creation was refused.
C1_Witness ==
    /\ resp.req.handler = "profile_follow"
    /\ resp.status = 500
    /\ CopiesIn(FollowRow(resp.req.user, resp.req.username), follows) = 1

\* C4: no Follow row ever has user = author, and a profile_follow of a user on
\* their own username creates nothing and redirects to that profile.
C4_NoSelfFollow ==
    /\ \A u \in Users : ~FollowExists(u, u)
    /\ (resp.req.handler = "profile_follow" /\ resp.req.user = resp.req.username)
         => /\ resp.status = 302
            /\ resp.target = Url("profile", resp.req.username, 0)

C4_Witness ==
    /\ resp.req.handler = "profile_follow"
    /\ resp.req.user = resp.req.username
    /\ resp.status = 302
    /\ follows # EmptyBag

\* The step in which the profile_follow request r of a user on another user
\* sends its response.
FollowCompletes(r) ==
    /\ Completes(r)
    /\ r.req.handler = "profile_follow"
    /\ r.req.user # r.req.username

\* The step in which a profile_unfollow of author a by user u is answered.
UnfollowAnswered(u, a) ==
    /\ Answered
    /\ resp'.req.handler = "profile_unfollow"
    /\ resp'.req.user = u
    /\ resp'.req.username = a

\* After the step, no post of author a is in the feed of u, and the feed of
\* every other user is as before.
RemovedFromFeed(u, a) ==
    /\ resp'.status = 302
    /\ AuthorPostIds(a) \cap FeedIds(u)' = {}
    /\ \A v \in Users \ {u} : FeedIds(v)' = FeedIds(v)

\* C5 as stated: after every step the feed of a user holds exactly the posts
\* of the authors that user currently follows; every follow_index response
\* shows only such posts and, the feed fitting on one page, all of them; when
\* a profile_follow by U on X has been answered every post of X is in U's
\* feed, when a profile_unfollow has been answered none is, and neither
\* changes the feed of any other user.
C5_FeedOfFollowedAuthors ==
    [][/\ \A u \in Users : FeedIds(u)' = FollowedPostIds(u)'
       /\ \A r \in BagToSet(inflight) :
            (Completes(r) /\ r.req.handler = "follow_index")
            => /\ resp'.status = 200
               /\ PageIds(resp'.body) \subseteq FollowedPostIds(r.req.user)
               /\ Cardinality(FollowedPostIds(r.req.user)) <= PageSize
                    => PageIds(resp'.body) = FollowedPostIds(r.req.user)
       /\ \A r \in BagToSet(inflight) :
            FollowCompletes(r)
            => /\ AuthorPostIds(r.req.username) \subseteq FeedIds(r.req.user)'
               /\ \A v \in Users \ {r.req.user} : FeedIds(v)' = FeedIds(v)
       /\ \A u \in Users, a \in Users :
            UnfollowAnswered(u, a) => RemovedFromFeed(u, a)
      ]_vars

\* C5 as amended: the feed of a user holds, after every step, exactly the
\* posts of the authors that user currently follows. A follow_index response
\* shows only such posts: the newest of them, as many as its paginator
\* counted, or all of them when fewer are left; so it shows them all unless a
\* post of a followed author was created, or an author was followed, between
\* its count and its page query. A profile_follow by U on X whose existence
\* check found no row leaves every post of X in U's feed; one whose check
\* found the row changes nothing, so X's posts are in U's feed unless a
\* profile_unfollow has deleted the row since the check. A profile_unfollow
\* leaves no post of X in U's feed, and neither changes any other feed.
C5_FeedUnlessOverlapped ==
    [][/\ \A u \in Users : FeedIds(u)' = FollowedPostIds(u)'
       /\ \A r \in BagToSet(inflight) :
            (Completes(r) /\ r.req.handler = "follow_index")
            => /\ resp'.status = 200
               /\ posts' = posts /\ follows' = follows
               /\ PageIds(resp'.body) \subseteq FollowedPostIds(r.req.user)
               /\ r.paginator_count <= PageSize
                    => /\ Cardinality(PageIds(resp'.body))
                            = Min(r.paginator_count,
                                  Cardinality(FollowedPostIds(r.req.user)))
                       /\ \A i \in PageIds(resp'.body) :
                            \A j \in FollowedPostIds(r.req.user) \ PageIds(resp'.body) :
                                j < i
                       /\ r.paginator_count >= Cardinality(FollowedPostIds(r.req.user))
                            => PageIds(resp'.body) = FollowedPostIds(r.req.user)
       /\ \A r \in BagToSet(inflight) :
            FollowCompletes(r)
            => /\ r.follow = FALSE
                    => AuthorPostIds(r.req.username) \subseteq FeedIds(r.req.user)'
               /\ r.follow = TRUE
                    => /\ resp'.status = 302
                       /\ follows' = follows
               /\ FollowExists(r.req.user, r.req.username)
                    => AuthorPostIds(r.req.username) \subseteq FeedIds(r.req.user)'
               /\ r.follow = FollowExists(r.req.user, r.req.username)
                    => resp'.status = 302
               /\ \A v \in Users \ {r.req.user} : FeedIds(v)' = FeedIds(v)
       /\ \A u \in Users, a \in Users :
            UnfollowAnswered(u, a) => RemovedFromFeed(u, a)
      ]_vars

\* A feed response that shows the posts of the followed author to the
\* follower while the author, who follows nobody, has an empty feed.
C5_Witness ==
    /\ resp.req.handler = "follow_index"
    /\ resp.status = 200
    /\ resp.body.page # <<>>
    /\ PageIds(resp.body) = FollowedPostIds(resp.req.user)
    /\ \E v \in Users \ {resp.req.user} :
          /\ FeedIds(v) = {}
          /\ AuthorPostIds(v) # {}

\* C10: in every state, those reached by interleaved profile_follow requests
\* included, the list follow_index computes for a user holds each post at most
\* once, so its length is the number of distinct posts of the followed
\* authors; that length is what follow_index reads as count_posts and returns,
\* and the page it shows holds no post twice.
C10_FeedHasNoDuplicates ==
    [][/\ \A u \in Users :
            Len(FollowIndexPostList(u))' = Cardinality(FollowedPostIds(u))'
       /\ \A r \in BagToSet(inflight') :
            (/\ inflight' = inflight (+) SetToBag({r})
             /\ r.req.handler = "follow_index")
            => r.count = Cardinality(FollowedPostIds(r.req.user))
       /\ \A r \in BagToSet(inflight) :
            (Completes(r) /\ r.req.handler = "follow_index")
            => /\ resp'.body.count = r.count
               /\ Cardinality(PageIds(resp'.body)) = Len(resp'.body.page)
      ]_vars

\* The feed is shown, with posts, while a second profile_follow of the same
\* user for the same author, which passed its existence check before the row
\* was created, is still waiting to create its row.
C10_Witness ==
    /\ resp.req.handler = "follow_index"
    /\ resp.status = 200
    /\ resp.body.count >= 2
    /\ Len(resp.body.page) = resp.body.count
    /\ StaleFollowPending(resp.req.user)

\* ------------------------------------------------------------- authoring
StoreUnchanged ==
    /\ posts' = posts
    /\ comments' = comments
    /\ follows' = follows
    /\ cache' = cache

\* C2: a post_edit by an authenticated user who is not the post's author
\* redirects to post_view and changes nothing stored, whatever is submitted;
\* and a stored Post changes only in the saving step of a post_edit request of
\* its own author, which leaves its author and id as they were.
C2_OnlyAuthorEdits ==
    [][/\ \A i \in DOMAIN posts :
            (/\ Answered
             /\ resp'.req.handler = "post_edit"
             /\ resp'.req.user # Anonymous
             /\ resp'.req.post_id = i
             /\ resp'.req.username = posts[i].author
             /\ resp'.req.user # posts[i].author)
            => /\ resp'.status = 302
               /\ resp'.target = Url("post_view", posts[i].author, i)
               /\ StoreUnchanged
               /\ inflight' = inflight
       /\ \A i \in DOMAIN posts :
            /\ i \in DOMAIN posts'
            /\ posts'[i] # posts[i]
                 => /\ Answered
                    /\ resp'.req.handler = "post_edit"
                    /\ resp'.req.post_id = i
                    /\ resp'.req.user = posts[i].author
                    /\ posts'[i].author = posts[i].author
                    /\ posts'[i].id = posts[i].id
       /\ \A r \in BagToSet(inflight') :
            r.req.handler = "post_edit"
              => /\ r.req.post_id \in DOMAIN posts'
                 /\ r.req.user = posts'[r.req.post_id].author
      ]_vars

\* A user who is not the author has submitted a valid form with another text
\* and an image to the edit page of a post, and was redirected.
C2_Witness ==
    /\ resp.req.handler = "post_edit"
    /\ resp.status = 302
    /\ resp.req.post_id \in DOMAIN posts
    /\ posts[resp.req.post_id].author = resp.req.username
    /\ resp.req.user \in Users \ {resp.req.username}
    /\ resp.req.data.bound
    /\ resp.req.data.text # posts[resp.req.post_id].text
    /\ resp.req.file = ImageFile

\* C6: an authenticated POST to new_post with valid text and a non-image file
\* in the image field is rejected: the form is rendered again and the set of
\* Posts is unchanged.
C6_NonImageUploadRejected ==
    [][(/\ Answered
        /\ resp'.req.handler = "new_post"
        /\ resp'.req.user # Anonymous
        /\ resp'.req.data.bound
        /\ resp'.req.data.text # ""
        /\ resp'.req.file = TextFile)
       => /\ resp'.status = 200
          /\ resp'.body.template = "posts/new_post.html"
          /\ posts' = posts
      ]_vars

\* ------------------------------------------------------------ commenting
\* C9: a valid add_comment by an authenticated user on an existing post,
\* addressed by its author's username and its id, appends exactly one Comment
\* with the submitted text, the requesting user as author and that post as
\* post, whatever author and post fields the submitted data carries and
\* whatever requests run between its lookup of the post and its insert; and
\* the stored comments change in no other way.
C9_CommentOwnedByRequester ==
    [][/\ (/\ Answered
           /\ resp'.req.handler = "add_comment"
           /\ resp'.req.user # Anonymous
           /\ resp'.req.post_id \in DOMAIN posts
           /\ posts[resp'.req.post_id].author = resp'.req.username
           /\ resp'.req.data.bound
           /\ resp'.req.data.text # "")
          => /\ resp'.status = 302
             /\ resp'.target = Url("post_view", resp'.req.username, resp'.req.post_id)
             /\ comments' = Append(comments, [text |-> resp'.req.data.text,
                                              author |-> resp'.req.user,
                                              post |-> resp'.req.post_id])
       /\ comments' # comments
            => /\ Answered
               /\ resp'.req.handler = "add_comment"
               /\ Len(comments') = Len(comments) + 1
               /\ SubSeq(comments', 1, Len(comments)) = comments
               /\ comments'[Len(comments')].author = resp'.req.user
               /\ resp'.req.user \in Users
      ]_vars

\* A comment was accepted whose submitted data named another user as author
\* and another post as post; the stored comment is the requester's, on the
\* addressed post.
C9_Witness ==
    /\ resp.req.handler = "add_comment"
    /\ resp.status = 302
    /\ resp.req.data.author \in Users \ {resp.req.user}
    /\ resp.req.data.post \in DOMAIN posts \ {resp.req.post_id}
    /\ comments # <<>>
    /\ comments[Len(comments)].author = resp.req.user
    /\ comments[Len(comments)].post = resp.req.post_id

\* ------------------------------------------------------- unauthenticated
AuthRequired ==
    {"new_post", "post_edit", "add_comment", "follow_index", "profile_follow",
     "profile_unfollow"}

\* C3: a request of an unauthenticated client to new_post, post_edit,
\* add_comment, follow_index, profile_follow or profile_unfollow is answered
\* with a redirect to login carrying the requested path as next, before it
\* has run any statement of the handler; and the Posts, Comments and Follow
\* rows change only in a step that answers the request of an authenticated
\* user.
C3_AnonymousChangesNothing ==
    [][/\ (Answered /\ resp'.req.user = Anonymous)
            => /\ posts' = posts
               /\ comments' = comments
               /\ follows' = follows
               /\ resp'.req.handler \in AuthRequired
                    => /\ resp'.status = 302
                       /\ resp'.target = Url("login", "", 0)
                       /\ resp'.next = Url(resp'.req.handler, resp'.req.username,
                                           resp'.req.post_id)
                       /\ inflight' = inflight
       /\ \A r \in BagToSet(inflight') :
            r.req.handler \in AuthRequired => r.req.user \in Users
       /\ (posts' # posts \/ comments' # comments \/ follows' # follows)
            => /\ Answered
               /\ resp'.req.user \in Users
      ]_vars

\* An unauthenticated client has submitted a valid comment on an existing
\* post of a store that holds posts, a comment and a Follow row.
C3_Witness ==
    /\ resp.req.user = Anonymous
    /\ resp.req.handler = "add_comment"
    /\ resp.req.data.bound
    /\ resp.req.post_id \in DOMAIN posts
    /\ resp.status = 302
    /\ comments # <<>>
    /\ follows # EmptyBag


\* ------------------------------------------------------- pages and cache
Shown(post, page) ==
    \E k \in DOMAIN page :
        /\ page[k].id = post.id
        /\ page[k].text = post.text
        /\ page[k].author = post.author
        /\ page[k].group = post.group

\* The position of a post in a newest-first listing of the posts in ids.
Rank(i, ids) == Cardinality({j \in ids : j >= i})

OnPage(i, ids, number) ==
    /\ Rank(i, ids) > (number - 1) * PageSize
    /\ Rank(i, ids) <= number * PageSize

\* The oldest n of the posts in ids: the ones stored when a query counted n.
Oldest(ids, n) == {i \in ids : Cardinality({j \in ids : j <= i}) <= n}

CreatedAsSubmitted ==
    (resp.req.handler = "new_post" /\ resp.status = 302 /\ resp.target = Url("index", "", 0))
      => /\ posts # <<>>
         /\ posts[Len(posts)].text = resp.req.data.text
         /\ posts[Len(posts)].group = resp.req.data.group
         /\ posts[Len(posts)].author = resp.req.user

\* The page read in this step by the profile request r shows every post of
\* the author that was stored when r counted them.
ShownOnProfile(r) ==
    \A i \in Oldest(AuthorPostIds(r.req.username), r.paginator_count) :
        OnPage(i, AuthorPostIds(r.req.username), resp'.body.number)
          => Shown(posts[i], resp'.body.page)

\* The page read in this step by the index request r, which becomes r2, shows
\* every post that was stored when r counted them.
ShownOnIndex(r, r2) ==
    \A i \in Oldest(DOMAIN posts, r.paginator_count) :
        OnPage(i, DOMAIN posts, GetPageNumber(r.req.page, r.paginator_count))
          => Shown(posts[i], r2.page)

\* A post_view request loads the addressed Post as stored and shows it as
\* loaded.
ShownOnDetail ==
    /\ \A r \in BagToSet(inflight') :
          (inflight' = inflight (+) SetToBag({r}) /\ r.req.handler = "post_view")
          => /\ r.req.post_id \in DOMAIN posts
             /\ r.post = posts[r.req.post_id]
             /\ r.post.author = r.req.username
    /\ \A r \in BagToSet(inflight) :
          (Completes(r) /\ r.req.handler = "post_view")
          => /\ resp'.status = 200
             /\ resp'.body.post = r.post

\* An index response that is not answered from the cache shows the page its
\* request has read.
IndexShowsItsPage ==
    \A r \in BagToSet(inflight) :
        (Completes(r) /\ r.req.handler = "index")
        => /\ resp'.status = 200
           /\ resp'.db
           /\ resp'.body.page = r.page

\* C7 as stated: every Post created by new_post is stored as submitted, and
\* every index, profile and detail request that reads the posts after it was
\* stored shows it with its stored text, author and group, whichever requests
\* came before or run at the same time.
C7_ShownOnEveryPage ==
    [][/\ CreatedAsSubmitted'
       /\ ShownOnDetail
       /\ IndexShowsItsPage
       /\ \A r \in BagToSet(inflight) :
            (Completes(r) /\ r.req.handler = "profile") => ShownOnProfile(r)
       /\ \A r \in BagToSet(inflight), r2 \in BagToSet(inflight') :
            (Advance(r, r2) /\ r.req.handler = "index" /\ r2.pc = "rendered")
            => ShownOnIndex(r, r2)
       /\ (Answered /\ resp'.req.handler = "index" /\ ~resp'.db)
            => \A i \in DOMAIN posts :
                  OnPage(i, DOMAIN posts, resp'.body.number) => Shown(posts[i], resp'.body.page)
      ]_vars

\* C7 as amended: the same for the listings whose page is read while the
\* number of listed posts is still the one their paginator has counted, and
\* an index response answered from the page cache is the response stored
\* earlier, whatever has been posted since.
C7_ShownUnlessCached ==
    [][/\ CreatedAsSubmitted'
       /\ ShownOnDetail
       /\ IndexShowsItsPage
       /\ \A r \in BagToSet(inflight) :
            (/\ Completes(r)
             /\ r.req.handler = "profile"
             /\ r.paginator_count = Cardinality(AuthorPostIds(r.req.username)))
            => ShownOnProfile(r)
       /\ \A r \in BagToSet(inflight), r2 \in BagToSet(inflight') :
            (/\ Advance(r, r2)
             /\ r.req.handler = "index"
             /\ r2.pc = "rendered"
             /\ r.paginator_count = Len(posts))
            => ShownOnIndex(r, r2)
       /\ (Answered /\ resp'.req.handler = "index" /\ ~resp'.db)
            => /\ cache[resp'.req.page].stored
               /\ resp'.body = cache[resp'.req.page].body
      ]_vars

\* An index response computed from the data model shows the two posts
\* created so far, and is the response now stored in the cache.
C7_Witness ==
    /\ resp.req.handler = "index"
    /\ resp.status = 200
    /\ resp.db
    /\ Len(posts) >= 2
    /\ resp.body.paginator_count = Len(posts)
    /\ \A i \in DOMAIN posts : Shown(posts[i], resp.body.page)
    /\ cache[resp.req.page].body = resp.body

\* An index request that finds a stored response that has not expired is
\* answered with it, without reading the data model and without touching the
\* cache; only a request that finds none runs the view.
ServedFromCache ==
    /\ \A p \in PageParams :
          (Answered /\ resp'.req.handler = "index" /\ resp'.req.page = p /\ ~resp'.db)
          => /\ cache[p].stored /\ now < cache[p].expires
             /\ resp'.status = 200
             /\ resp'.body = cache[p].body
             /\ cache' = cache
             /\ inflight' = inflight
    /\ \A r \in BagToSet(inflight') :
          (inflight' = inflight (+) SetToBag({r}) /\ r.req.handler = "index")
          => ~(cache[r.req.page].stored /\ now < cache[r.req.page].expires)

\* An index request that has run the view stores its response for
\* CacheTimeout seconds from the moment it is done.
StoredWhenComputed ==
    \A r \in BagToSet(inflight) :
        (Completes(r) /\ r.req.handler = "index")
        => /\ resp'.status = 200
           /\ resp'.db
           /\ cache' = [cache EXCEPT ![r.req.page] =
                           [body |-> resp'.body, stored |-> TRUE,
                            expires |-> now + CacheTimeout]]

IndexInProgress(p) ==
    \E r \in BagToSet(inflight) : r.req.handler = "index" /\ r.req.page = p

\* C8 as stated: an index request for a URL whose stored response has not
\* expired is answered with that stored response, without reading the data
\* model; any other index request is computed from the data model and stored
\* for CacheTimeout seconds; and no step of any handler changes a stored
\* response before it has expired.
C8_CachedForTheWindow ==
    [][/\ ServedFromCache
       /\ StoredWhenComputed
       /\ \A p \in PageParams :
            cache'[p] # cache[p]
              => /\ Answered
                 /\ resp'.req.handler = "index"
                 /\ resp'.req.page = p
                 /\ ~(cache[p].stored /\ now < cache[p].expires)
      ]_vars

\* C8 as amended: the same, except that a stored response that has not
\* expired is replaced by an index request for the same URL that was already
\* in progress, having found no stored response when it arrived; no other
\* step changes it.
C8_CachedUnlessOverlapped ==
    [][/\ ServedFromCache
       /\ StoredWhenComputed
       /\ \A p \in PageParams :
            cache'[p] # cache[p]
              => /\ Answered
                 /\ resp'.req.handler = "index"
                 /\ resp'.req.page = p
                 /\ resp'.db
                 /\ (cache[p].stored /\ now < cache[p].expires) => IndexInProgress(p)
      ]_vars

\* Within the window an index response was answered from the cache although
\* the posts have changed since it was stored.
C8_Witness ==
    /\ resp.req.handler = "index"
    /\ ~resp.db
    /\ now > 0
    /\ now < cache[resp.req.page].expires
    /\ resp.body.paginator_count < Len(posts)
====
